---- MODULE Spec2Model ----
(***************************************************************************)
(* On-demand report generation pipeline of the LifeSync API:               *)
(*   - ReportsService.generateReport and its private steps                  *)
(*     (src/src/services/report-deliveries.service.ts), every await point   *)
(*     of one request being one step of a process;                          *)
(*   - the idempotency_keys table (src/unnamed/part_003);                   *)
(*   - OpenRouterService (src/unnamed/part_013): request, retry, error      *)
(*     mapping and usage statistics.                                        *)
(*                                                                         *)
(* Time is counted in units of 24/UnitsPerDay hours since a Monday          *)
(* 00:00:00 UTC.  A timestamp is the index of the unit it falls in.         *)
(***************************************************************************)
EXTENDS Integers, Sequences, FiniteSets, TLC

\* ------------------------------------------------------------------ bounds
MaxCalls == 2          \* generateReport calls started in one behaviour
MaxRepeats == 3        \* calls in a behaviour of one client repeating one request
MaxCompletions == 3    \* createChatCompletion calls in one behaviour
MaxPrior == 2          \* reports u1 already has when the behaviour starts
MaxTicks == 2          \* clock steps in one behaviour
MaxDeletes == 1        \* deleteReportById calls in one behaviour
MaxFaults == 1         \* failing database calls in one behaviour
UnitsPerDay == 2       \* time granularity (2 = twelve-hour units)

\* --------------------------------------------------------- program constants
WeeklyLimit == 3       \* reportCount >= 3
TtlDays == 1           \* expiresAt.setHours(getHours() + 24)
DaysPerWeek == 7

UnitsPerWeek == DaysPerWeek * UnitsPerDay
TtlUnits == TtlDays * UnitsPerDay
NowInit == UnitsPerWeek - 2
MaxNow == NowInit + MaxTicks

\* ------------------------------------------------------------------ fixtures
Procs == {1, 2, 3}
Users == {"u1", "u2"}
NoKey == "NoKey"                       \* header absent or empty (falsy)
Keys == {NoKey, "k1"}
TzOffsets == {-1, 0, 1}                \* profile.timezone as a UTC offset in units
NoId == 0

\* categories table: rows that exist with active = true
categories == {"A", "B"}
\* preferences.active_categories of each user
active_categories(u) == IF u = "u1" THEN {"A"} ELSE {"B"}
\* include_categories values a request carries (distinct ids, 1..3 of them)
Requests(u) ==
    IF u = "u1" THEN {<<"A">>, <<"B">>, <<"A", "B">>, <<"B", "X">>} ELSE {<<"B">>}

VARIABLES
    now,        \* wall clock of the server and the database (an instant)
    serverTz,   \* UTC offset of the Node process (TZ of the host)
    timezone,   \* profiles.timezone per user, as a UTC offset
    reports,    \* reports table: sequence of rows, id = index
    idem,       \* idempotency_keys table: set of rows
    proc,       \* per request: position in generateReport and its locals
    ncalls,     \* generateReport calls started so far
    ndeletes,   \* deleteReportById calls so far
    faultsLeft, \* database calls that may still fail in this behaviour
    lastDone,   \* record of the operation that completed last
    config,     \* OpenRouterService: timeout and maxRetries of the instance
    usageStats, \* OpenRouterService.usageStats
    orc,        \* the createChatCompletion call in progress, or the last one
    ncompletions, \* createChatCompletion calls started so far
    consecutiveFailures, \* failed transport attempts since the last successful one
    responseTimes, \* OpenRouterService.responseTimes: durations of the last responses
    ledger      \* what the transport and the callers saw since the last reset

dbVars == <<now, serverTz, timezone, reports, idem, proc, ncalls, ndeletes, faultsLeft, lastDone>>
orVars == <<config, usageStats, orc, ncompletions, consecutiveFailures, responseTimes, ledger>>
vars == <<now, serverTz, timezone, reports, idem, proc, ncalls, ndeletes, faultsLeft, lastDone,
          config, usageStats, orc, ncompletions, consecutiveFailures, responseTimes, ledger>>

\* ============================================================ pure helpers
SeqToSet(s) == {s[i] : i \in 1..Len(s)}

\* Array.prototype.filter
RECURSIVE Filter(_, _)
Filter(s, keep) ==
    IF s = <<>> THEN <<>>
    ELSE IF Head(s) \in keep THEN <<Head(s)>> \o Filter(Tail(s), keep)
    ELSE Filter(Tail(s), keep)

\* now.toLocaleString('en-US', {timeZone}): wall clock reading in the zone
toLocaleString(t, tz) == t + tz
\* new Date(string): the reading is parsed as a reading of the host's zone
parseLocal(wall, host) == wall - host
\* Date.getDay() of an instant in the host's zone (0 = Sunday; unit 0 is a Monday)
getDay(t, host) == (((t + host) \div UnitsPerDay) + 1) % DaysPerWeek
\* setDate(getDate() + d); setHours(0,0,0,0) in the host's zone
startOfDayPlus(t, d, host) == (((t + host) \div UnitsPerDay) + d) * UnitsPerDay - host
\* setDate(getDate() + d); setHours(23,59,59,999) in the host's zone
endOfDayPlus(t, d, host) ==
    (((t + host) \div UnitsPerDay) + d) * UnitsPerDay + (UnitsPerDay - 1) - host
\* toISOString().split('T')[0]: the UTC calendar day of an instant
isoDate(t) == t \div UnitsPerDay

calculateWeekBoundaries(tz, host, t) ==
    LET userDate == parseLocal(toLocaleString(t, tz), host)
        dayOfWeek == getDay(userDate, host)
        daysToMonday == IF dayOfWeek = 0 THEN 6 ELSE dayOfWeek - 1
        monday == startOfDayPlus(userDate, 0 - daysToMonday, host)
        sunday == endOfDayPlus(monday, 6, host)
    IN  [weekStart |-> isoDate(monday) * UnitsPerDay,
         weekEnd   |-> isoDate(sunday) * UnitsPerDay + (UnitsPerDay - 1)]

\* the local week (Monday 00:00 .. Sunday 23:59:59 local) an instant falls in
LocalWeek(t, tz) == (t + tz) \div UnitsPerWeek

\* ================================================================== state
Idle ==
    [op |-> "generate", pc |-> "idle", user |-> "u1", key |-> NoKey, cats |-> <<>>,
     rid |-> NoId, weekStart |-> 0, weekEnd |-> 0,
     result |-> "none", resId |-> NoId, invalidIds |-> <<>>, count |-> 0,
     snapshot |-> {},
     replayed |-> FALSE, validated |-> FALSE, counted |-> FALSE,
     generated |-> FALSE, transportCalls |-> 0, inserted |-> FALSE,
     stored |-> FALSE, faulted |-> FALSE]

\* a row of the reports table
ReportRow(u, t, snap, k) ==
    [user_id |-> u, generated_by |-> "on_demand", created_at |-> t,
     deleted |-> FALSE, categories_snapshot |-> snap, key |-> k]

\* the database when the behaviour starts: u1 has created MaxPrior on-demand
\* reports in the current time unit, without idempotency key; u2 has none
InitDb(faults) ==
    /\ now = NowInit
    /\ serverTz = 0
    /\ timezone \in {[u \in Users |-> IF u = "u1" THEN z ELSE 0] : z \in TzOffsets}
    /\ reports = [i \in 1..MaxPrior |-> ReportRow("u1", NowInit, {"A"}, NoKey)]
    /\ idem = {}
    /\ proc = [p \in Procs |-> Idle]
    /\ ncalls = 0
    /\ ndeletes = 0
    /\ faultsLeft = faults
    /\ lastDone = [op |-> "none"]

InFlight(p) == proc[p].pc # "idle"

\* rows of the reports table the quota query of user u selects
CountRows(u, ws, we) ==
    {i \in 1..Len(reports) :
        /\ reports[i].user_id = u
        /\ reports[i].generated_by = "on_demand"
        /\ reports[i].created_at >= ws
        /\ reports[i].created_at <= we}

\* on-demand reports of u created in the local week that contains instant t
ReportsInLocalWeek(u, t) ==
    {i \in 1..Len(reports) :
        /\ reports[i].user_id = u
        /\ reports[i].generated_by = "on_demand"
        /\ LocalWeek(reports[i].created_at, timezone[u]) = LocalWeek(t, timezone[u])}

\* the request ends: its outcome is what generateReport returns or throws;
\* lastDone keeps the request's record, the slot is free again
Finish(p, c) ==
    /\ proc' = [proc EXCEPT ![p] = Idle]
    /\ lastDone' = [c EXCEPT !.pc = "done"]

Step(p, c) ==
    /\ proc' = [proc EXCEPT ![p] = c]
    /\ UNCHANGED lastDone

\* ================================================== ReportsService.generateReport
\* entry of generateReport: step 1 is skipped when the key is falsy
generateReport(p, u, k, cs) ==
    /\ ~InFlight(p)
    /\ ncalls' = ncalls + 1
    /\ Step(p, [Idle EXCEPT
                   !.pc = IF k # NoKey THEN "checkIdempotencyKey" ELSE "validateCategories",
                   !.user = u, !.key = k, !.cats = cs])
    /\ UNCHANGED <<now, serverTz, timezone, reports, idem, ndeletes, faultsLeft, orVars>>

\* one call to the database: it answers, or it fails (connection, server error)
DbCall(dbError) ==
    /\ dbError => faultsLeft > 0
    /\ faultsLeft' = IF dbError THEN faultsLeft - 1 ELSE faultsLeft

\* the lookup without the user_id filter (and without row level security)
LiveKeyRows_AnyUser(u, k) ==
    {r \in idem : r.key = k /\ r.expires_at > now}

\* rows the lookup selects: same user, same key, expires_at > now
LiveKeyRows(u, k) ==
    {r \in idem : r.user_id = u /\ r.key = k /\ r.expires_at > now}

\* checkIdempotencyKey without the early return of generateReport: the row's
\* report id is kept, but the request goes on to validate and generate
checkIdempotencyKey_NoReturn(p) ==
    LET c == proc[p] IN
    /\ c.pc = "checkIdempotencyKey"
    /\ \E dbError \in BOOLEAN :
         /\ DbCall(dbError)
         /\ IF dbError
            THEN Step(p, [c EXCEPT !.pc = "validateCategories", !.faulted = TRUE])
            ELSE IF LiveKeyRows(c.user, c.key) = {}
            THEN Step(p, [c EXCEPT !.pc = "validateCategories"])
            ELSE \E r \in LiveKeyRows(c.user, c.key) :
                    Step(p, [c EXCEPT !.pc = "validateCategories", !.rid = r.report_id])
    /\ UNCHANGED <<now, serverTz, timezone, reports, idem, ncalls, ndeletes, orVars>>

\* checkIdempotencyKey with one-shot keys: the record that answers a lookup
\* is deleted
checkIdempotencyKey_Consume(p) ==
    LET c == proc[p] IN
    /\ c.pc = "checkIdempotencyKey"
    /\ \E dbError \in BOOLEAN :
         /\ DbCall(dbError)
         /\ IF dbError
            THEN /\ Step(p, [c EXCEPT !.pc = "validateCategories", !.faulted = TRUE])
                 /\ UNCHANGED idem
            ELSE IF LiveKeyRows(c.user, c.key) = {}
            THEN /\ Step(p, [c EXCEPT !.pc = "validateCategories"])
                 /\ UNCHANGED idem
            ELSE \E r \in LiveKeyRows(c.user, c.key) :
                    /\ Step(p, [c EXCEPT !.pc = "getReportById", !.rid = r.report_id])
                    /\ idem' = idem \ {r}
    /\ UNCHANGED <<now, serverTz, timezone, reports, ncalls, ndeletes, orVars>>

\* checkIdempotencyKey, the idempotency_keys query.  A query error and "no
\* rows" both give null; a row leads on to getReportById.
checkIdempotencyKey(p) ==
    LET c == proc[p] IN
    /\ c.pc = "checkIdempotencyKey"
    /\ \E dbError \in BOOLEAN :
         /\ DbCall(dbError)
         /\ IF dbError
            THEN Step(p, [c EXCEPT !.pc = "validateCategories", !.faulted = TRUE])
            ELSE IF LiveKeyRows(c.user, c.key) = {}
            THEN Step(p, [c EXCEPT !.pc = "validateCategories"])
            ELSE \E r \in LiveKeyRows(c.user, c.key) :
                    Step(p, [c EXCEPT !.pc = "getReportById", !.rid = r.report_id])
    /\ UNCHANGED <<now, serverTz, timezone, reports, idem, ncalls, ndeletes, orVars>>

\* getReportById awaited inside the try block of checkIdempotencyKey: the
\* catch turns a rejection into null and generateReport goes on to generate
getReportById_Caught(p) ==
    LET c == proc[p] IN
    /\ c.pc = "getReportById"
    /\ \E dbError \in BOOLEAN :
         /\ DbCall(dbError)
         /\ IF dbError
            THEN Step(p, [c EXCEPT !.pc = "validateCategories", !.faulted = TRUE])
            ELSE IF c.rid \in 1..Len(reports) /\ ~reports[c.rid].deleted
            THEN Finish(p, [c EXCEPT !.result = "ok", !.resId = c.rid, !.replayed = TRUE])
            ELSE Step(p, [c EXCEPT !.pc = "validateCategories"])
    /\ UNCHANGED <<now, serverTz, timezone, reports, idem, ncalls, ndeletes, orVars>>

\* getReportById as called from checkIdempotencyKey: its promise is returned
\* without await, so a rejection is not caught by the surrounding try/catch
\* and becomes the outcome of generateReport.
getReportById(p) ==
    LET c == proc[p] IN
    /\ c.pc = "getReportById"
    /\ \E dbError \in BOOLEAN :
         /\ DbCall(dbError)
         /\ IF dbError
            THEN Finish(p, [c EXCEPT !.result = "Error", !.faulted = TRUE])
            ELSE IF c.rid \in 1..Len(reports) /\ ~reports[c.rid].deleted
            THEN Finish(p, [c EXCEPT !.result = "ok", !.resId = c.rid, !.replayed = TRUE])
            ELSE Finish(p, [c EXCEPT !.result = "ReportNotFound"])
    /\ UNCHANGED <<now, serverTz, timezone, reports, idem, ncalls, ndeletes, orVars>>

\* validateCategories steps 1-2: the categories query and notFoundIds
validateCategories(p) ==
    LET c == proc[p]
        foundIds == SeqToSet(c.cats) \cap categories
        notFoundIds == Filter(c.cats, SeqToSet(c.cats) \ foundIds)
    IN
    /\ c.pc = "validateCategories"
    /\ \E dbError \in BOOLEAN :
         /\ DbCall(dbError)
         /\ IF dbError
            THEN Finish(p, [c EXCEPT !.result = "Error", !.faulted = TRUE, !.validated = TRUE])
            ELSE IF Len(notFoundIds) > 0
            THEN Finish(p, [c EXCEPT !.result = "InvalidCategories", !.validated = TRUE,
                                     !.invalidIds = notFoundIds])
            ELSE Step(p, [c EXCEPT !.pc = "validatePreferences", !.validated = TRUE,
                                   !.snapshot = foundIds])
    /\ UNCHANGED <<now, serverTz, timezone, reports, idem, ncalls, ndeletes, orVars>>

\* validateCategories steps 3-4 with the authorization test left out: every
\* category that exists and is active passes
validatePreferences_NoAuthorization(p) ==
    LET c == proc[p]
        unauthorizedIds == Filter(c.cats, SeqToSet(c.cats) \ categories)
    IN
    /\ c.pc = "validatePreferences"
    /\ \E dbError \in BOOLEAN :
         /\ DbCall(dbError)
         /\ IF dbError
            THEN Finish(p, [c EXCEPT !.result = "Error", !.faulted = TRUE])
            ELSE IF Len(unauthorizedIds) > 0
            THEN Finish(p, [c EXCEPT !.result = "InvalidCategories",
                                     !.invalidIds = unauthorizedIds])
            ELSE Step(p, [c EXCEPT !.pc = "checkWeeklyLimit"])
    /\ UNCHANGED <<now, serverTz, timezone, reports, idem, ncalls, ndeletes, orVars>>

\* validateCategories steps 3-4: the preferences query and unauthorizedIds
validatePreferences(p) ==
    LET c == proc[p]
        unauthorizedIds == Filter(c.cats, SeqToSet(c.cats) \ active_categories(c.user))
    IN
    /\ c.pc = "validatePreferences"
    /\ \E dbError \in BOOLEAN :
         /\ DbCall(dbError)
         /\ IF dbError
            THEN Finish(p, [c EXCEPT !.result = "Error", !.faulted = TRUE])
            ELSE IF Len(unauthorizedIds) > 0
            THEN Finish(p, [c EXCEPT !.result = "InvalidCategories",
                                     !.invalidIds = unauthorizedIds])
            ELSE Step(p, [c EXCEPT !.pc = "checkWeeklyLimit"])
    /\ UNCHANGED <<now, serverTz, timezone, reports, idem, ncalls, ndeletes, orVars>>

\* checkWeeklyLimit steps 1-2: the profiles query, then the week bounds
checkWeeklyLimit(p) ==
    LET c == proc[p]
        b == calculateWeekBoundaries(timezone[c.user], serverTz, now)
    IN
    /\ c.pc = "checkWeeklyLimit"
    /\ \E dbError \in BOOLEAN :
         /\ DbCall(dbError)
         /\ IF dbError
            THEN Finish(p, [c EXCEPT !.result = "Error", !.faulted = TRUE])
            ELSE Step(p, [c EXCEPT !.pc = "countReports",
                                   !.weekStart = b.weekStart, !.weekEnd = b.weekEnd])
    /\ UNCHANGED <<now, serverTz, timezone, reports, idem, ncalls, ndeletes, orVars>>

\* checkWeeklyLimit step 3: the count query (soft-deleted rows included)
countReports(p) ==
    LET c == proc[p]
        reportCount == Cardinality(CountRows(c.user, c.weekStart, c.weekEnd))
    IN
    /\ c.pc = "countReports"
    /\ \E dbError \in BOOLEAN :
         /\ DbCall(dbError)
         /\ IF dbError
            THEN Finish(p, [c EXCEPT !.result = "Error", !.faulted = TRUE, !.counted = TRUE])
            ELSE IF reportCount >= WeeklyLimit
            THEN Finish(p, [c EXCEPT !.result = "WeeklyLimitExceeded", !.counted = TRUE,
                                     !.count = reportCount])
            ELSE Step(p, [c EXCEPT !.pc = "fetchNotesForReport", !.counted = TRUE,
                                   !.count = reportCount])
    /\ UNCHANGED <<now, serverTz, timezone, reports, idem, ncalls, ndeletes, orVars>>

\* step 4: the notes query
fetchNotesForReport(p) ==
    LET c == proc[p] IN
    /\ c.pc = "fetchNotesForReport"
    /\ \E dbError \in BOOLEAN :
         /\ DbCall(dbError)
         /\ IF dbError
            THEN Finish(p, [c EXCEPT !.result = "Error", !.faulted = TRUE])
            ELSE Step(p, [c EXCEPT !.pc = "generateReportContent"])
    /\ UNCHANGED <<now, serverTz, timezone, reports, idem, ncalls, ndeletes, orVars>>

\* step 5: placeholder content, returned without any call to the LLM service
generateReportContent(p) ==
    LET c == proc[p] IN
    /\ c.pc = "generateReportContent"
    /\ Step(p, [c EXCEPT !.pc = "insertReport", !.generated = TRUE])
    /\ UNCHANGED <<now, serverTz, timezone, reports, idem, ncalls, ndeletes, faultsLeft, orVars>>

\* step 6 with the insert's error left unchecked: the request goes on as if
\* the row had been written
insertReport_ErrorIgnored(p) ==
    LET c == proc[p]
        row == ReportRow(c.user, now, c.snapshot, c.key)
        id == Len(reports) + 1
    IN
    /\ c.pc = "insertReport"
    /\ \E dbError \in BOOLEAN :
         /\ DbCall(dbError)
         /\ IF dbError
            THEN /\ UNCHANGED reports
                 /\ IF c.key # NoKey
                    THEN Step(p, [c EXCEPT !.pc = "storeIdempotencyKey", !.faulted = TRUE,
                                           !.result = "ok"])
                    ELSE Finish(p, [c EXCEPT !.faulted = TRUE, !.result = "ok"])
            ELSE /\ reports' = Append(reports, row)
                 /\ IF c.key # NoKey
                    THEN Step(p, [c EXCEPT !.pc = "storeIdempotencyKey", !.inserted = TRUE,
                                           !.result = "ok", !.resId = id])
                    ELSE Finish(p, [c EXCEPT !.inserted = TRUE, !.result = "ok", !.resId = id])
    /\ UNCHANGED <<now, serverTz, timezone, idem, ncalls, ndeletes, orVars>>

\* step 6: insert into reports; created_at defaults to the database's now();
\* categories_snapshot is the validated category rows, kept here by their ids
insertReport(p) ==
    LET c == proc[p]
        row == ReportRow(c.user, now, c.snapshot, c.key)
        id == Len(reports) + 1
    IN
    /\ c.pc = "insertReport"
    /\ \E dbError \in BOOLEAN :
         /\ DbCall(dbError)
         /\ IF dbError
            THEN /\ Finish(p, [c EXCEPT !.result = "Error", !.faulted = TRUE])
                 /\ UNCHANGED reports
            ELSE /\ reports' = Append(reports, row)
                 /\ IF c.key # NoKey
                    THEN Step(p, [c EXCEPT !.pc = "storeIdempotencyKey", !.inserted = TRUE,
                                           !.result = "ok", !.resId = id])
                    ELSE Finish(p, [c EXCEPT !.inserted = TRUE, !.result = "ok", !.resId = id])
    /\ UNCHANGED <<now, serverTz, timezone, idem, ncalls, ndeletes, orVars>>

\* storeIdempotencyKey as an upsert on (user_id, key): a conflicting insert
\* overwrites the row of the first writer
storeIdempotencyKey_Upsert(p) ==
    LET c == proc[p]
        row == [user_id |-> c.user, key |-> c.key, report_id |-> c.resId,
                expires_at |-> now + TtlUnits]
    IN
    /\ c.pc = "storeIdempotencyKey"
    /\ \E dbError \in BOOLEAN :
         /\ DbCall(dbError)
         /\ IF dbError
            THEN /\ Finish(p, [c EXCEPT !.faulted = TRUE])
                 /\ UNCHANGED idem
            ELSE /\ idem' = {r \in idem : ~(r.user_id = c.user /\ r.key = c.key)} \cup {row}
                 /\ Finish(p, [c EXCEPT !.stored = TRUE])
    /\ UNCHANGED <<now, serverTz, timezone, reports, ncalls, ndeletes, orVars>>

\* step 7: insert into idempotency_keys; a failed insert (database error or
\* unique_user_idempotency_key violation) is logged and the report returned
storeIdempotencyKey(p) ==
    LET c == proc[p]
        row == [user_id |-> c.user, key |-> c.key, report_id |-> c.resId,
                expires_at |-> now + TtlUnits]
        conflict == \E r \in idem : r.user_id = c.user /\ r.key = c.key
    IN
    /\ c.pc = "storeIdempotencyKey"
    /\ \E dbError \in BOOLEAN :
         /\ DbCall(dbError)
         /\ IF dbError
            THEN /\ Finish(p, [c EXCEPT !.faulted = TRUE])
                 /\ UNCHANGED idem
            ELSE IF conflict
            THEN /\ Finish(p, c)
                 /\ UNCHANGED idem
            ELSE /\ idem' = idem \cup {row}
                 /\ Finish(p, [c EXCEPT !.stored = TRUE])
    /\ UNCHANGED <<now, serverTz, timezone, reports, ncalls, ndeletes, orVars>>

\* deleteReportById: select (not deleted, owned by the user), then soft-delete
deleteReportById(u, id) ==
    /\ id \in 1..Len(reports)
    /\ ~reports[id].deleted
    /\ reports[id].user_id = u
    /\ reports' = [reports EXCEPT ![id].deleted = TRUE]
    /\ ndeletes < MaxDeletes
    /\ ndeletes' = ndeletes + 1
    /\ lastDone' = [op |-> "delete"]
    /\ UNCHANGED <<now, serverTz, timezone, idem, proc, ncalls, faultsLeft, orVars>>

\* time passes.  A request takes far less than one time unit, so the clock
\* moves on between requests.
Tick ==
    /\ now < MaxNow
    /\ \A p \in Procs : ~InFlight(p)
    /\ now' = now + 1
    /\ lastDone' = [op |-> "tick"]
    /\ UNCHANGED <<serverTz, timezone, reports, idem, proc, ncalls, ndeletes, faultsLeft, orVars>>

StepOf(p) ==
    \/ checkIdempotencyKey(p)
    \/ getReportById(p)
    \/ validateCategories(p)
    \/ validatePreferences(p)
    \/ checkWeeklyLimit(p)
    \/ countReports(p)
    \/ fetchNotesForReport(p)
    \/ generateReportContent(p)
    \/ insertReport(p)
    \/ storeIdempotencyKey(p)

\* ============================================================ OpenRouterService
DefaultTimeout == 30000      \* constructor default, milliseconds
DefaultMaxRetries == 3       \* constructor default
FailureThreshold == 5        \* consecutive failures that open the circuit
CooldownMs == 60000          \* time the circuit stays open before a probe
MaxBackoffMs == 32000        \* calculateBackoff: Math.min(baseDelay + jitter, 32000)
\* OPENROUTER_TIMEOUT values an installation may set
Timeouts == {DefaultTimeout, 5000, 4010}
\* HTTP statuses the transport may answer with instead of 2xx
Statuses == {400, 401, 402, 404, 405, 429, 500, 503}

Ok == [kind |-> "ok", status |-> 200]
LocalTimeout == [kind |-> "timeout", status |-> 0]
Http(st) == [kind |-> "http", status |-> st]
NoOutcome == [kind |-> "none", status |-> 0]
Outcomes == {Ok, LocalTimeout} \cup {Http(st) : st \in Statuses}

\* decimal digits of a number, as `${n}` prints them
RECURSIVE Digits(_)
Digits(n) == IF n < 10 THEN <<n>> ELSE Digits(n \div 10) \o <<n % 10>>

\* String.prototype.includes on a run of digits
IsInfix(pat, str) ==
    \E i \in 0..(Len(str) - Len(pat)) :
        \A j \in 1..Len(pat) : str[i + j] = pat[j]

\* reason phrases that contain the word "timeout" (Request Timeout, Gateway Timeout)
TimeoutPhrase(st) == st \in {408, 504}

\* error.message.toLowerCase() of what makeRequest throws: the digits the
\* message carries and whether it carries the word "timeout"
errorMessage(outcome, timeoutMs) ==
    IF outcome.kind = "timeout"
    THEN [digits |-> Digits(timeoutMs), timeoutWord |-> TRUE]      \* `Timeout after ${timeout}ms`
    ELSE [digits |-> Digits(outcome.status),                       \* `HTTP ${status}: ${statusText}`
          timeoutWord |-> TimeoutPhrase(outcome.status)]

\* handleRequestError: the error class thrown for a message, first match wins;
\* "Error" is the original error, rethrown by makeRequest
handleRequestError(message) ==
    IF IsInfix(<<4, 0, 1>>, message.digits) THEN "APIKeyInvalidError"
    ELSE IF IsInfix(<<4, 2, 9>>, message.digits) THEN "RateLimitError"
    ELSE IF IsInfix(<<4, 0, 2>>, message.digits) THEN "QuotaExceededError"
    ELSE IF IsInfix(<<4, 0, 4>>, message.digits) THEN "ModelNotFoundError"
    ELSE IF IsInfix(<<5>>, message.digits) THEN "ServiceUnavailableError"
    ELSE IF message.timeoutWord THEN "APITimeoutError"
    ELSE "Error"

\* shouldRetry that retries whatever was thrown
shouldRetry_Always(error) == error = error

shouldRetry(error) ==
    error \in {"RateLimitError", "ServiceUnavailableError", "APITimeoutError"}

\* an optional parameter: <<v>> when given, <<>> when the caller left it out
Undefined == <<>>

\* a message content (a string) as runs of characters: each run has a class
\* of character ("text", "space" for non-control whitespace, "control" for
\* the code points 0x00-0x1F and 0x7F) and a length
Run(class, n) == [class |-> class, n |-> n]
Hi == <<Run("text", 2)>>
RECURSIVE ContentLength(_)
ContentLength(input) ==
    IF input = <<>> THEN 0 ELSE Head(input).n + ContentLength(Tail(input))

\* String.prototype.trim: leading and trailing whitespace dropped
RECURSIVE trim(_)
trim(input) ==
    IF input = <<>> THEN <<>>
    ELSE IF Head(input).class = "space" THEN trim(Tail(input))
    ELSE IF input[Len(input)].class = "space" THEN trim(SubSeq(input, 1, Len(input) - 1))
    ELSE input

\* sanitizeInput: control characters removed, then trim
sanitizeInput(input) ==
    trim(SelectSeq(input, LAMBDA run : run.class # "control"))

\* sanitizeRequest: the messages of the request, each content sanitized
sanitizeRequest(request) ==
    [request EXCEPT !.messages = [i \in 1..Len(request.messages) |->
                                      sanitizeInput(request.messages[i])]]
\* ChatCompletionRequest values a caller may pass: the model name, the
\* messages, temperature and max_tokens
ChatRequests ==
    [model : {"", "m"}, messages : {<<>>, <<Hi>>},
     temperature : {Undefined, <<-1>>, <<2>>, <<3>>},
     max_tokens : {Undefined, <<0>>, <<200000>>, <<200001>>}]
\* a well-formed request and one without messages
SampleRequests ==
    {[model |-> "m", messages |-> <<Hi>>, temperature |-> Undefined, max_tokens |-> Undefined],
     [model |-> "m", messages |-> <<>>, temperature |-> Undefined, max_tokens |-> Undefined]}
NoRequest == [model |-> "", messages |-> <<>>, temperature |-> Undefined, max_tokens |-> Undefined]

\* validateRequestParameters without the upper limit of max_tokens
validateRequestParameters_NoUpperLimit(request) ==
    (IF request.model = "" THEN <<"model is required">> ELSE <<>>)
    \o (IF Len(request.messages) = 0 THEN <<"messages must be a non-empty array">> ELSE <<>>)
    \o (IF request.temperature # Undefined /\ (request.temperature[1] < 0 \/ request.temperature[1] > 2)
        THEN <<"temperature must be between 0 and 2">> ELSE <<>>)
    \o (IF request.max_tokens # Undefined /\ request.max_tokens[1] < 1
        THEN <<"max_tokens must be between 1 and 200000">> ELSE <<>>)

\* validateRequestParameters: the list of error messages
validateRequestParameters(request) ==
    (IF request.model = "" THEN <<"model is required">> ELSE <<>>)
    \o (IF Len(request.messages) = 0 THEN <<"messages must be a non-empty array">> ELSE <<>>)
    \o (IF request.temperature # Undefined /\ (request.temperature[1] < 0 \/ request.temperature[1] > 2)
        THEN <<"temperature must be between 0 and 2">> ELSE <<>>)
    \o (IF request.max_tokens # Undefined
           /\ (request.max_tokens[1] < 1 \/ request.max_tokens[1] > 200000)
        THEN <<"max_tokens must be between 1 and 200000">> ELSE <<>>)

\* the locals of one createChatCompletion call, before it starts
IdleCall ==
    [pc |-> "idle", request |-> NoRequest, retryCount |-> 0, attempts |-> 0, failures |-> 0,
     retryable |-> 0, last |-> NoOutcome, first |-> NoOutcome, result |-> "none",
     sanitizedRequest |-> NoRequest, pending |-> 0]

\* usageStats as the constructor and resetUsageStats set it
NoUsage == [requests_count |-> 0, total_tokens_used |-> 0, errors_count |-> 0]
\* since the last reset: calls that returned a response, the total_tokens of
\* their responses, transport attempts that failed
NoLedger == [returned |-> 0, tokens |-> 0, failedAttempts |-> 0]

InitOr ==
    /\ config = [timeout |-> DefaultTimeout, maxRetries |-> DefaultMaxRetries]
    /\ usageStats = NoUsage
    /\ orc = IdleCall
    /\ ncompletions = 0
    /\ consecutiveFailures = 0
    /\ responseTimes = <<>>
    /\ ledger = NoLedger

\* a service constructed from the environment (createOpenRouterService)
InitOrConfigured ==
    /\ config \in [timeout : Timeouts, maxRetries : 0..DefaultMaxRetries]
    /\ usageStats = NoUsage
    /\ orc = IdleCall
    /\ ncompletions = 0
    /\ consecutiveFailures = 0
    /\ responseTimes = <<>>
    /\ ledger = NoLedger

\* the failures the claims call retryable: HTTP 429, HTTP 5xx, local timeout
RetryableCondition(outcome) ==
    \/ outcome.kind = "timeout"
    \/ outcome.kind = "http" /\ (outcome.status = 429 \/ outcome.status \in 500..599)

\* createChatCompletion steps 1-2: validation, sanitizing; then the first attempt is due
createChatCompletion(request) ==
    /\ orc.pc \in {"idle", "done"}
    /\ ncompletions < MaxCompletions
    /\ ncompletions' = ncompletions + 1
    /\ orc' = IF Len(validateRequestParameters(request)) > 0
              THEN [IdleCall EXCEPT !.pc = "done", !.request = request,
                                    !.result = "ValidationError"]
              ELSE [IdleCall EXCEPT !.pc = "makeRequest", !.request = request,
                                    !.sanitizedRequest = sanitizeRequest(request)]
    /\ UNCHANGED <<config, usageStats, consecutiveFailures, responseTimes, ledger, dbVars>>

\* updateUsageStats that counts the request and leaves the tokens out
updateUsageStats_CountOnly(usage) ==
    [usageStats EXCEPT !.requests_count = @ + 1]

\* updateUsageStats(response.usage): usageStats after it
updateUsageStats(usage) ==
    [usageStats EXCEPT !.total_tokens_used = @ + usage[1], !.requests_count = @ + 1]

\* logRequest: the duration is pushed, the window keeps the last 100
ResponseWindow == 100
logRequest(duration) ==
    LET pushed == Append(responseTimes, duration)
    IN IF Len(pushed) > ResponseWindow THEN Tail(pushed) ELSE pushed

\* one attempt of makeRequestWithRetry: makeRequest with the transport's
\* outcome, then either the response (and createChatCompletion step 4,
\* updateUsageStats), or handleRequestError and the retry decision
makeRequest(outcome, usage, duration) ==
    LET error == handleRequestError(errorMessage(outcome, config.timeout))
        c == [orc EXCEPT !.attempts = @ + 1, !.last = outcome,
                         !.first = IF orc.attempts = 0 THEN outcome ELSE @]
    IN
    /\ orc.pc = "makeRequest"
    /\ IF outcome.kind = "ok"
       THEN /\ responseTimes' = logRequest(duration)
            /\ IF usage = Undefined
               THEN \* usage.total_tokens of undefined: a TypeError out of step 4
                    /\ orc' = [c EXCEPT !.pc = "done", !.result = "TypeError"]
                    /\ UNCHANGED <<usageStats, ledger>>
               ELSE /\ orc' = [c EXCEPT !.pc = "done", !.result = "ok"]
                    /\ usageStats' = updateUsageStats(usage)
                    /\ ledger' = [ledger EXCEPT !.returned = @ + 1, !.tokens = @ + usage[1]]
       ELSE /\ usageStats' = [usageStats EXCEPT !.errors_count = @ + 1]
            /\ ledger' = [ledger EXCEPT !.failedAttempts = @ + 1]
            /\ UNCHANGED responseTimes
            /\ LET f == [c EXCEPT !.failures = @ + 1,
                                  !.retryable = IF RetryableCondition(outcome) THEN @ + 1 ELSE @,
                                  \* Promise.race: the fetch that lost against the
                                  \* timer goes on
                                  !.pending = IF outcome.kind = "timeout" THEN @ + 1 ELSE @]
               IN IF orc.retryCount < config.maxRetries /\ shouldRetry(error)
                  THEN orc' = [f EXCEPT !.pc = "delay", !.retryCount = @ + 1]
                  ELSE orc' = [f EXCEPT !.pc = "done", !.result = error]
    /\ consecutiveFailures' = IF outcome.kind = "ok" THEN 0 ELSE consecutiveFailures + 1
    /\ UNCHANGED <<config, ncompletions, dbVars>>

\* a fetch that lost against the timer settles; nobody awaits its result
fetchSettles ==
    /\ orc.pending > 0
    /\ orc' = [orc EXCEPT !.pending = @ - 1]
    /\ UNCHANGED <<config, usageStats, ncompletions, consecutiveFailures, responseTimes, ledger,
                   dbVars>>

\* resetUsageStats
resetUsageStats ==
    /\ usageStats' = NoUsage
    /\ responseTimes' = <<>>
    /\ ledger' = NoLedger
    /\ UNCHANGED <<config, orc, ncompletions, consecutiveFailures, dbVars>>

\* delay(calculateBackoff(retryCount)) has elapsed: the next attempt is due
delay ==
    /\ orc.pc = "delay"
    /\ orc' = [orc EXCEPT !.pc = "makeRequest"]
    /\ UNCHANGED <<config, usageStats, ncompletions, consecutiveFailures, responseTimes, ledger,
                   dbVars>>

Tokens == {1, 2}
\* response.usage: total_tokens, or no usage object in the body
Usages == {Undefined} \cup {<<tokens>> : tokens \in Tokens}
\* Date.now() - startTime of a response, in ms: a fast and a slow one
Durations == {100, 20000}

CallGateway == \E request \in SampleRequests : createChatCompletion(request)
CallGatewayAny == \E request \in ChatRequests : createChatCompletion(request)
Transport == \E outcome \in Outcomes, tokens \in Tokens : makeRequest(outcome, <<tokens>>, 100)
\* a response, a timeout, a status that is retried and one that is not,
\* for any response body and duration
SampleOutcomes == {Ok, LocalTimeout, Http(429), Http(401)}
TransportAny ==
    \E outcome \in SampleOutcomes, usage \in Usages, duration \in Durations :
        makeRequest(outcome, usage, duration)

\* the transport while the provider is down: every attempt fails
TransportDown == \E outcome \in {Http(503), LocalTimeout} : makeRequest(outcome, <<1>>, 100)

\* requests are interchangeable: a new one takes the first free slot
FirstFree(p) == \A q \in Procs : q < p => InFlight(q)

\* concurrent requests: any number of requests in flight
StartRequest ==
    \E p \in Procs, u \in Users, k \in Keys :
        \E cs \in Requests(u) :
            /\ ncalls < MaxCalls
            /\ FirstFree(p)
            /\ generateReport(p, u, k, cs)

\* one request at a time
StartSequential ==
    \E p \in Procs, u \in Users, k \in Keys :
        \E cs \in Requests(u) :
            /\ ncalls < MaxCalls
            /\ \A q \in Procs : ~InFlight(q)
            /\ FirstFree(p)
            /\ generateReport(p, u, k, cs)

\* one client (u1) repeating one request body, one request at a time
StartRepeat ==
    \E p \in Procs, k \in Keys :
        /\ ncalls < MaxRepeats
        /\ \A q \in Procs : ~InFlight(q)
        /\ FirstFree(p)
        /\ generateReport(p, "u1", k, <<"A">>)

\* one client (u1) sending one request body on every connection at once
StartRace ==
    \E p \in Procs, k \in Keys :
        /\ ncalls < Cardinality(Procs)
        /\ FirstFree(p)
        /\ generateReport(p, "u1", k, <<"A">>)

RequestStep == \E p \in Procs : StepOf(p)

DeleteReport ==
    \E u \in Users, id \in 1..(MaxPrior + MaxRepeats) : deleteReportById(u, id)

Init == InitDb(MaxFaults) /\ InitOr
\* the same with a database that never fails
InitHealthy == InitDb(0) /\ InitOr

\* concurrent requests of both users, the database may fail
Next == StartRequest \/ RequestStep
Spec == Init /\ [][Next]_vars

\* one request at a time, the database may fail, reports get deleted, time passes
NextSeq == StartSequential \/ RequestStep \/ DeleteReport \/ Tick
SpecSeq == Init /\ [][NextSeq]_vars

\* a client repeating its request over time against a healthy database
NextRepeat == StartRepeat \/ RequestStep \/ DeleteReport \/ Tick
SpecRepeat == InitHealthy /\ [][NextRepeat]_vars

\* a client sending its request concurrently against a healthy database
NextRace == StartRace \/ RequestStep
SpecRace == InitHealthy /\ [][NextRace]_vars

\* the gateway alone, for any configuration of the instance
InitGateway ==
    /\ InitOrConfigured
    /\ now = NowInit /\ serverTz = 0 /\ timezone = [u \in Users |-> 0]
    /\ reports = <<>> /\ idem = {} /\ proc = [p \in Procs |-> Idle]
    /\ ncalls = 0 /\ ndeletes = 0 /\ faultsLeft = 0 /\ lastDone = [op |-> "none"]
NextGateway == CallGateway \/ Transport \/ delay
SpecGateway == InitGateway /\ [][NextGateway]_vars

\* the gateway as the constructor's defaults configure it, for any request
InitValidation ==
    /\ InitOr
    /\ now = NowInit /\ serverTz = 0 /\ timezone = [u \in Users |-> 0]
    /\ reports = <<>> /\ idem = {} /\ proc = [p \in Procs |-> Idle]
    /\ ncalls = 0 /\ ndeletes = 0 /\ faultsLeft = 0 /\ lastDone = [op |-> "none"]
NextValidation == CallGatewayAny \/ Transport \/ delay
SpecValidation == InitValidation /\ [][NextValidation]_vars

\* the gateway with its defaults, for requests whose one message carries
\* text with control characters, surrounding whitespace, or a text at and
\* beyond the documented length limit
MaxContentLength == 10000
Contents ==
    {Hi,
     <<Run("control", 1), Run("text", 3), Run("control", 1), Run("space", 1)>>,
     <<Run("space", 1), Run("text", MaxContentLength), Run("control", 1)>>,
     <<Run("text", MaxContentLength + 1)>>}
ContentRequests ==
    {[NoRequest EXCEPT !.model = "m", !.messages = <<content>>] : content \in Contents}
CallGatewayContent == \E request \in ContentRequests : createChatCompletion(request)
NextSanitize == CallGatewayContent \/ Transport \/ delay
SpecSanitize == InitValidation /\ [][NextSanitize]_vars

\* the gateway with its defaults: any response body and duration, and an
\* operator who resets the statistics at any moment
NextUsage == CallGateway \/ TransportAny \/ delay \/ resetUsageStats
SpecUsage == InitValidation /\ [][NextUsage]_vars

\* the gateway with its defaults, and the fetches its timer left behind
NextTimeout == CallGateway \/ Transport \/ delay \/ fetchSettles
SpecTimeout == InitValidation /\ [][NextTimeout]_vars

\* a client repeating its request against a database that may fail
NextRetry == StartRepeat \/ RequestStep
SpecRetry == Init /\ [][NextRetry]_vars

\* report requests of one client while the provider of the gateway is down
\* and the gateway's callers keep getting errors
NextOutage == StartRepeat \/ RequestStep \/ CallGateway \/ TransportDown \/ delay
SpecOutage == InitHealthy /\ [][NextOutage]_vars

TypeOK ==
    /\ now \in NowInit..MaxNow
    /\ ncalls \in 0..MaxRepeats
    /\ Len(reports) <= MaxPrior + MaxRepeats

\* ====================================================================== claims
IsCall(r) == r.op = "generate"
\* every requested id exists, is active and is in the user's active_categories
ValidRequest(r) == SeqToSet(r.cats) \subseteq (categories \cap active_categories(r.user))
\* on-demand reports the user had in the current local week before request r
PriorInLocalWeek(r) ==
    Cardinality(ReportsInLocalWeek(r.user, now)) - (IF r.inserted THEN 1 ELSE 0)
ReportsOfKey(u, k) ==
    {i \in 1..Len(reports) : reports[i].user_id = u /\ reports[i].key = k}

\* C1: a request that directly follows a successful request of the same user
\* with the same idempotency key (no database failure, no clock step in
\* between, the report not deleted) returns the same report id and inserts
\* nothing.
C1_SameKeySameReport ==
    [][\A p \in Procs :
          ( /\ InFlight(p) /\ ~InFlight(p)'
            /\ IsCall(lastDone) /\ lastDone.result = "ok"
            /\ proc[p].key # NoKey
            /\ lastDone.user = proc[p].user /\ lastDone.key = proc[p].key
            /\ ~reports[lastDone.resId].deleted )
          => ( /\ lastDone'.result = "ok"
               /\ lastDone'.resId = lastDone.resId
               /\ ~lastDone'.inserted )]_vars

\* C2: for a (user, key) pair at most one report is ever created, also when
\* requests with that pair run concurrently.
C2_OneReportPerKey ==
    \A u \in Users, k \in Keys \ {NoKey} : Cardinality(ReportsOfKey(u, k)) <= 1

\* C3: once the lookup has found a record for the request's key, the request
\* validates no categories, issues no count query, generates and inserts
\* nothing and records no key; when the lookup returns the prior report (the
\* report is fetched) the request returns that report, whatever the user's
\* count for the week is.
C3_ReplayShortCircuits ==
    /\ \A p \in Procs : proc[p].rid # NoId =>
          /\ ~proc[p].validated /\ ~proc[p].counted
          /\ ~proc[p].generated /\ ~proc[p].inserted
          /\ proc[p].pc = "getReportById"
    /\ (IsCall(lastDone) /\ lastDone.rid # NoId) =>
          /\ ~lastDone.validated /\ ~lastDone.counted
          /\ ~lastDone.generated /\ ~lastDone.inserted /\ ~lastDone.stored
          /\ (~lastDone.faulted /\ ~reports[lastDone.rid].deleted) =>
                (lastDone.result = "ok" /\ lastDone.resId = lastDone.rid)

\* a replay has succeeded for a user whose quota query would count 3 reports
C3_Witness ==
    /\ IsCall(lastDone) /\ lastDone.replayed /\ lastDone.result = "ok"
    /\ LET b == calculateWeekBoundaries(timezone[lastDone.user], serverTz, now)
       IN  Cardinality(CountRows(lastDone.user, b.weekStart, b.weekEnd)) >= WeeklyLimit
    /\ Cardinality(ReportsInLocalWeek(lastDone.user, now)) >= WeeklyLimit

\* C4: a request with valid categories and no idempotency hit, made when the
\* user has 3 on-demand reports in the current local week, fails with
\* WeeklyLimitExceeded(count = 3) before content generation and insert.
C4_FourthCallRejected ==
    ( /\ IsCall(lastDone) /\ ~lastDone.faulted /\ lastDone.rid = NoId
      /\ ValidRequest(lastDone)
      /\ PriorInLocalWeek(lastDone) = WeeklyLimit )
    => ( /\ lastDone.result = "WeeklyLimitExceeded"
         /\ lastDone.count = WeeklyLimit
         /\ ~lastDone.generated /\ ~lastDone.inserted )

\* C5: no user ever has more than 3 on-demand reports (deleted or not)
\* created in one local week.
C5_AtMostThreePerLocalWeek ==
    \A i \in 1..Len(reports) :
        Cardinality(ReportsInLocalWeek(reports[i].user_id, reports[i].created_at))
            <= WeeklyLimit

\* C6: under concurrent requests no user ever has more than 3 + 1 on-demand
\* reports created in one local week.
C6_OvershootAtMostOne ==
    \A i \in 1..Len(reports) :
        Cardinality(ReportsInLocalWeek(reports[i].user_id, reports[i].created_at))
            <= WeeklyLimit + 1

\* id is the one requested id that is active but not authorized; the rest is valid
OnlyUnauthorized(r, id) ==
    /\ id \in SeqToSet(r.cats) /\ id \in categories /\ id \notin active_categories(r.user)
    /\ SeqToSet(r.cats) \ {id} \subseteq (categories \cap active_categories(r.user))

\* C7: a request (no idempotency hit, the database answering) whose only
\* invalid id is an active category outside the user's active_categories
\* fails with InvalidCategories(invalidIds = [that id]); the count query is
\* never issued for a request that names an unauthorized category.
C7_UnauthorizedBeforeQuota ==
    /\ \A p \in Procs : proc[p].counted => ValidRequest(proc[p])
    /\ IsCall(lastDone) =>
          /\ lastDone.counted => ValidRequest(lastDone)
          /\ \A id \in categories :
                (OnlyUnauthorized(lastDone, id) /\ lastDone.rid = NoId /\ ~lastDone.faulted)
                => ( /\ lastDone.result = "InvalidCategories"
                     /\ lastDone.invalidIds = <<id>>
                     /\ ~lastDone.counted /\ ~lastDone.inserted )

\* u1 asked for [A, B]; B is active but not authorized
C7_Witness ==
    /\ IsCall(lastDone) /\ lastDone.user = "u1" /\ lastDone.cats = <<"A", "B">>
    /\ OnlyUnauthorized(lastDone, "B")
    /\ lastDone.validated /\ lastDone.result = "InvalidCategories"

\* C8: a successful request without idempotency key, by a user with no
\* report this week who asked for exactly the authorized categories, got a
\* completion from the transport and persisted one report whose snapshot is
\* the requested set; no idempotency record was written.
C8_EndToEnd ==
    ( /\ IsCall(lastDone) /\ lastDone.key = NoKey /\ ~lastDone.faulted
      /\ SeqToSet(lastDone.cats) = active_categories(lastDone.user)
      /\ PriorInLocalWeek(lastDone) = 0 )
    => ( /\ lastDone.result = "ok" /\ lastDone.inserted
         /\ lastDone.transportCalls >= 1
         /\ reports[lastDone.resId].categories_snapshot = SeqToSet(lastDone.cats)
         /\ ~lastDone.stored )

\* C9: a call whose failed attempts all were retryable conditions (429, 5xx,
\* local timeout) ends in success after failures + 1 attempts when the
\* transport then answers, and otherwise ends in an error only after
\* maxRetries + 1 attempts.
C9_RetryBudget ==
    (orc.pc = "done" /\ orc.attempts > 0 /\ orc.retryable = orc.failures) =>
        /\ orc.last.kind = "ok" => (orc.result = "ok" /\ orc.attempts = orc.failures + 1)
        /\ orc.last.kind # "ok" =>
              (orc.result # "ok" /\ orc.attempts = config.maxRetries + 1)

\* C10: HTTP 401, 402 and 404 end the call at once with their own error
\* class, whatever retry budget remains; as the first answer they make the
\* call one attempt long.
C10_NoRetryOnAuth ==
    \A st \in {401, 402, 404} :
        orc.last = Http(st) =>
            /\ orc.pc = "done"
            /\ orc.result = (IF st = 401 THEN "APIKeyInvalidError"
                             ELSE IF st = 402 THEN "QuotaExceededError"
                             ELSE "ModelNotFoundError")
            /\ orc.first = Http(st) => orc.attempts = 1

\* a 401 was answered while retries remained
C10_Witness ==
    /\ orc.pc = "done" /\ orc.last = Http(401) /\ orc.attempts = 1
    /\ config.maxRetries > 0 /\ orc.result = "APIKeyInvalidError"

\* C11: a createChatCompletion call that starts after 5 consecutive failed
\* transport attempts fails at once with the unavailable error: no transport
\* attempt becomes due (a request rejected by validation aside).
C11_OpenCircuitFailsFast ==
    [][( /\ ncompletions' = ncompletions + 1
         /\ consecutiveFailures >= FailureThreshold
         /\ orc'.result # "ValidationError" )
       => ( /\ orc'.pc = "done"
            /\ orc'.result = "ServiceUnavailableError" )]_vars

\* C12: the circuit opens at 5 consecutive failures and is left only for one
\* probe after the cooldown; a failed probe re-opens it.  A retry comes at
\* most MaxBackoffMs after the attempt before it, sooner than the cooldown
\* ends: so once an attempt made at 5 or more consecutive failures has
\* failed, the same call makes no further transport attempt.
C12_FailedProbeReopens ==
    [][( /\ MaxBackoffMs < CooldownMs
         /\ consecutiveFailures > FailureThreshold
         /\ orc.attempts >= 1 )
       => orc'.attempts <= orc.attempts]_vars

\* the UTC instant of Monday 00:00:00 local time of the local week of instant t
LocalWeekStart(t, tz) == LocalWeek(t, tz) * UnitsPerWeek - tz

\* C13: the week bounds computed for a request are the UTC instants of Monday
\* 00:00:00 and Sunday 23:59:59 local time of the local week that contains
\* now, for every timezone.
C13_WeekBoundsAreLocalWeek ==
    \A p \in Procs : proc[p].pc = "countReports" =>
        /\ proc[p].weekStart = LocalWeekStart(now, timezone[proc[p].user])
        /\ proc[p].weekEnd = LocalWeekStart(now, timezone[proc[p].user]) + UnitsPerWeek - 1

\* what the claims call an invalid request: empty model, no messages,
\* temperature outside [0, 2] or max_tokens outside [1, 200000]
InvalidParameters(request) ==
    \/ request.model = ""
    \/ request.messages = <<>>
    \/ request.temperature # Undefined /\ request.temperature[1] \notin 0..2
    \/ request.max_tokens # Undefined /\ request.max_tokens[1] \notin 1..200000

\* C14: a createChatCompletion call with an invalid request ends at once in
\* a ValidationError: no transport attempt, no retry, usage statistics
\* unchanged.
C14_InvalidRequestRejectedLocally ==
    [][( /\ ncompletions' = ncompletions + 1
         /\ InvalidParameters(orc'.request) )
       => ( /\ orc'.pc = "done" /\ orc'.result = "ValidationError"
            /\ orc'.attempts = 0 /\ orc'.retryCount = 0
            /\ usageStats' = usageStats )]_vars

\* a request with max_tokens above the limit was rejected after the service
\* had counted requests and errors
C14_Witness ==
    /\ orc.pc = "done" /\ orc.result = "ValidationError" /\ orc.attempts = 0
    /\ orc.request.model # "" /\ orc.request.messages # <<>>
    /\ orc.request.temperature = Undefined
    /\ orc.request.max_tokens = <<200001>>
    /\ usageStats.errors_count > 0 /\ usageStats.requests_count > 0

\* C15: a request with a key that generated a report (no live record of the
\* key was found: none at all, or an expired one) has recorded its report
\* under the key, so that the next request with the key finds this report.
C15_ExpiredKeyIsRecordedAfresh ==
    ( /\ IsCall(lastDone) /\ lastDone.result = "ok"
      /\ lastDone.key # NoKey /\ lastDone.inserted )
    => \E r \in LiveKeyRows(lastDone.user, lastDone.key) : r.report_id = lastDone.resId

\* C16: a request with a key whose lookup ran into a database failure goes
\* on as if the key were absent (it validates its categories); and a request
\* that has persisted its report returns that report, whether or not the
\* key could be recorded.
C16_IdempotencyStoreFailsOpen ==
    (IsCall(lastDone) /\ lastDone.key # NoKey) =>
        /\ (lastDone.faulted /\ ~lastDone.replayed) => lastDone.validated
        /\ lastDone.inserted =>
              /\ lastDone.result = "ok"
              /\ lastDone.resId \in ReportsOfKey(lastDone.user, lastDone.key)

\* the error classes a failed gateway call ends in
GatewayErrors ==
    {handleRequestError(errorMessage(outcome, config.timeout)) : outcome \in Outcomes \ {Ok}}
\* the gateway's last call has failed and no attempt has succeeded since
GatewayDown ==
    /\ orc.pc = "done" /\ orc.result \in GatewayErrors
    /\ consecutiveFailures > 0

InsertFailed(r) == IsCall(r) /\ r.generated /\ ~r.inserted

\* C18: a request whose report insert fails ends in an error: it returns no
\* report and has recorded no key, no live record of its key exists, and
\* the client's next request with the same key validates and generates
\* anew instead of replaying.
C18_InsertFailureFailsCall ==
    [][ /\ InsertFailed(lastDone') =>
              /\ lastDone'.result = "Error" /\ lastDone'.resId = NoId
              /\ ~lastDone'.stored
              /\ (LiveKeyRows(lastDone.user, lastDone.key))' = {}
        /\ \A p \in Procs :
              ( /\ InFlight(p) /\ ~InFlight(p)'
                /\ InsertFailed(lastDone)
                /\ proc[p].user = lastDone.user /\ proc[p].key = lastDone.key )
              => (lastDone'.validated /\ ~lastDone'.replayed) ]_vars

\* after a failed insert the client's next request with the key k1 has
\* found no record, validated and generated, and is about to insert
C18_Witness ==
    /\ InsertFailed(lastDone) /\ lastDone.key = "k1" /\ lastDone.result = "Error"
    /\ \E p \in Procs :
          /\ proc[p].pc = "insertReport" /\ proc[p].key = "k1"
          /\ proc[p].user = lastDone.user /\ proc[p].rid = NoId

\* C19: an HTTP status other than 429 and 5xx is not retried: it ends the
\* call, and as the first answer it makes the call one attempt long.
C19_OnlyRetryableKindsRetried ==
    \A st \in Statuses \ ({429} \cup 500..599) :
        orc.last = Http(st) =>
            /\ orc.pc = "done"
            /\ orc.first = Http(st) => orc.attempts = 1

\* C20: a call that ends on a local timeout ends in APITimeoutError, for
\* every configured timeout value.
C20_TimeoutIsTimeout ==
    (orc.pc = "done" /\ orc.last = LocalTimeout) => orc.result = "APITimeoutError"

\* C21: every message content that createChatCompletion hands to the
\* transport has no control character and at most 10 000 characters.
HandedToTransport == orc.attempts > 0
C21_SentContentIsSanitized ==
    HandedToTransport =>
        \A i \in 1..Len(orc.sanitizedRequest.messages) :
            LET content == orc.sanitizedRequest.messages[i] IN
            /\ \A j \in 1..Len(content) : content[j].class # "control"
            /\ ContentLength(content) <= MaxContentLength

\* C22: a storeIdempotencyKey that meets a record of the same (user, key)
\* ends the call with the report it created, raises nothing, and leaves the
\* record of the first writer as it was (report id and expiry).
KeyRowsIn(rows, u, k) == {r \in rows : r.user_id = u /\ r.key = k}
KeyRows(u, k) == KeyRowsIn(idem, u, k)
C22_ConflictKeepsFirstWriter ==
    [][\A p \in Procs :
          (/\ proc[p].pc = "storeIdempotencyKey"
           /\ proc'[p].pc # "storeIdempotencyKey"
           /\ KeyRows(proc[p].user, proc[p].key) # {})
          => /\ lastDone'.result = "ok"
             /\ lastDone'.resId = proc[p].resId
             /\ KeyRowsIn(idem', proc[p].user, proc[p].key) = KeyRows(proc[p].user, proc[p].key)]_vars
\* a call has ended on the conflict: its report is not the recorded one
C22_Witness ==
    /\ IsCall(lastDone) /\ lastDone.inserted /\ ~lastDone.stored /\ ~lastDone.faulted
    /\ lastDone.key # NoKey /\ lastDone.result = "ok"
    /\ \E r \in KeyRows(lastDone.user, lastDone.key) : r.report_id # lastDone.resId

\* C23: a call whose transport attempt returned a successful completion
\* returns that response to its caller, whatever happens while the usage
\* statistics are updated.
C23_UsageFailureNotEscalated ==
    (orc.pc = "done" /\ orc.last = Ok) => orc.result = "ok"

\* C24: an attempt whose timeout fired is cancelled, so that a transport
\* attempt is issued only when no earlier fetch of the call is outstanding:
\* a call never has two transport requests in flight.
C24_TimedOutFetchIsCancelled ==
    [][orc'.attempts > orc.attempts => orc.pending = 0]_vars

\* C25: since the last reset requests_count is the number of calls that
\* returned a response, total_tokens_used the sum of their total_tokens and
\* errors_count the number of failed transport attempts; a counter goes
\* down only in a step that sets all three to 0 and empties responseTimes.
UsageIsExact ==
    /\ usageStats.requests_count = ledger.returned
    /\ usageStats.total_tokens_used = ledger.tokens
    /\ usageStats.errors_count = ledger.failedAttempts
C25_UsageAccountingExact ==
    /\ []UsageIsExact
    /\ [][\/ /\ usageStats'.requests_count >= usageStats.requests_count
              /\ usageStats'.total_tokens_used >= usageStats.total_tokens_used
              /\ usageStats'.errors_count >= usageStats.errors_count
           \/ /\ usageStats' = NoUsage
              /\ responseTimes' = <<>>]_vars
\* a call returned after two failed attempts, the statistics were reset
\* between the two: one error, one request and its tokens are counted
C25_Witness ==
    /\ orc.pc = "done" /\ orc.result = "ok" /\ orc.failures = 2
    /\ usageStats = [requests_count |-> 1, total_tokens_used |-> 2, errors_count |-> 1]
    /\ Len(responseTimes) = 1

\* C26: while the record of a (user, key) is live, at most one report has
\* been created for that user and key since the record was written, also
\* when the recorded report was soft-deleted and the key was sent again.
CreatedUnderRecord(r) ==
    {i \in ReportsOfKey(r.user_id, r.key) : reports[i].created_at >= r.expires_at - TtlUnits}
C27_NowInsideWeekBounds ==
    \A p \in Procs : proc[p].pc = "countReports" =>
        (proc[p].weekStart <= now /\ now <= proc[p].weekEnd)

\* C28: the invalidIds of an InvalidCategories error are exactly the
\* requested ids that fail validation: those that do not exist or are
\* inactive together with those outside the user's active categories.
FailingIds(r) == SeqToSet(r.cats) \ (categories \cap active_categories(r.user))
C28_InvalidIdsAreAllFailingIds ==
    (IsCall(lastDone) /\ lastDone.result = "InvalidCategories")
        => SeqToSet(lastDone.invalidIds) = FailingIds(lastDone)

\* C29: idempotency records are per user.  A call is short-circuited only
\* by a record of its own user and key, and the report a call returns
\* belongs to the caller, also when another user recorded the same key.
C29_KeysScopedPerUser ==
    /\ \A p \in Procs : proc[p].pc = "getReportById" =>
          \E r \in KeyRows(proc[p].user, proc[p].key) : r.report_id = proc[p].rid
    /\ (IsCall(lastDone) /\ lastDone.result = "ok")
          => reports[lastDone.resId].user_id = lastDone.user
\* u2 sent the key that u1 has a live record of, and got a report of its own
C29_Witness ==
    /\ IsCall(lastDone) /\ lastDone.user = "u2" /\ lastDone.key = "k1"
    /\ lastDone.result = "ok" /\ lastDone.inserted /\ lastDone.stored
    /\ reports[lastDone.resId].user_id = "u2"
    /\ \E r \in LiveKeyRows("u1", "k1") :
          reports[r.report_id].user_id = "u1" /\ r.report_id < lastDone.resId

\* C30: every idempotency record names a report that exists and was
\* created for the record's user with the record's key; a record is
\* written by the call that has just persisted that report, and no step
\* changes or removes a record.
RecordHasItsReport(r) ==
    /\ r.report_id \in 1..Len(reports)
    /\ reports[r.report_id].user_id = r.user_id
    /\ reports[r.report_id].key = r.key
C30_RecordAfterCreate ==
    /\ [](\A r \in idem : RecordHasItsReport(r))
    /\ [][/\ idem \subseteq idem'
          /\ \A r \in idem' \ idem :
                \E p \in Procs :
                    /\ proc[p].pc = "storeIdempotencyKey" /\ proc[p].inserted
                    /\ proc[p].user = r.user_id /\ proc[p].key = r.key
                    /\ proc[p].resId = r.report_id
                    /\ RecordHasItsReport(r)]_vars
\* a record was looked up on a replay and is still what the first call wrote
C30_Witness ==
    /\ IsCall(lastDone) /\ lastDone.replayed /\ lastDone.result = "ok"
    /\ \E r \in KeyRows(lastDone.user, lastDone.key) :
          /\ r.report_id = lastDone.resId
          /\ r.expires_at = reports[r.report_id].created_at + TtlUnits

====
